---- MODULE Spec2Model ----
(***************************************************************************)
(* Sistema de Pedidos: FastAPI + SQLAlchemy order backend.                 *)
(* The store (usuarios, pedidos, itens_pedido), the JWTs handed out so     *)
(* far, the wall clock, and the outcome of the last HTTP request handled.  *)
(* One action per route handler; every handler runs to completion          *)
(* (request-per-call, one SQLAlchemy session per request).                 *)
(* Money is counted in whole units (the code uses Float columns).          *)
(***************************************************************************)
EXTENDS Integers, Sequences, FiniteSets, TLC

VARIABLES usuarios, pedidos, itens, tokens, now, resp, sessoes, escritor

vars == <<usuarios, pedidos, itens, tokens, now, resp, sessoes, escritor>>
store == <<usuarios, pedidos, itens>>

----------------------------------------------------------------------------
(* Bounds of the model *)

MaxPedidos == 2     \* rows of table pedidos
MaxItens == 2       \* largest id of table itens_pedido
MaxTokens == 3      \* distinct JWTs handed out
MaxSessoes == 2     \* requests served at the same time, each with a session of its own

(* Program constants *)

ACCESS_TOKEN_EXPIRE_MINUTES == 30
REFRESH_TOKEN_EXPIRE_MINUTES == 7 * 24 * 60

HTTP_200_OK == 200
HTTP_201_CREATED == 201
HTTP_400_BAD_REQUEST == 400
HTTP_401_UNAUTHORIZED == 401
HTTP_403_FORBIDDEN == 403
HTTP_404_NOT_FOUND == 404
HTTP_422_UNPROCESSABLE == 422
HTTP_500_INTERNAL_SERVER_ERROR == 500

Status == {"PENDENTE", "EM_PREPARO", "FINALIZADO", "CANCELADO"}

----------------------------------------------------------------------------
(* Passwords: bcrypt_context.hash / bcrypt_context.verify *)

bcrypt_hash(senha) == <<"bcrypt", senha>>

bcrypt_verify(senha, hash) == hash = <<"bcrypt", senha>>

(* Rows *)

Usuario(nome, email, senha, ativo, admin) ==
    [nome |-> nome, email |-> email, senha |-> senha, ativo |-> ativo, admin |-> admin]

\* Slip: the owner is not stored
Pedido_sem_dono(usuario) == [usuario |-> 0, status |-> "PENDENTE", preco |-> 0]

\* Slip: an order starts in preparation
Pedido_em_preparo(usuario) == [usuario |-> usuario, status |-> "EM_PREPARO", preco |-> 0]

Pedido(usuario) == [usuario |-> usuario, status |-> "PENDENTE", preco |-> 0]

\* Slip: the item is attached to the first order, whatever order it was added to
ItemPedido_do_primeiro_pedido(quantidade, sabor, tamanho, preco_unitario, pedido) ==
    [quantidade |-> quantidade, sabor |-> sabor, tamanho |-> tamanho,
     preco_unitario |-> preco_unitario, pedido |-> 1]

ItemPedido(quantidade, sabor, tamanho, preco_unitario, pedido) ==
    [quantidade |-> quantidade, sabor |-> sabor, tamanho |-> tamanho,
     preco_unitario |-> preco_unitario, pedido |-> pedido]

(* Request bodies offered by clients *)

UsuarioBodies ==
    { [nome |-> "Bia", email |-> "bia@x.com", senha |-> "pw2", ativo |-> FALSE],
      [nome |-> "Bia", email |-> "ana@x.com", senha |-> "pw2", ativo |-> TRUE] }

\* Items whose flavor or size is the empty string
ItemBodiesSemTexto ==
    { [quantidade |-> 1, sabor |-> "", tamanho |-> "Can", preco_unitario |-> 5],
      [quantidade |-> 1, sabor |-> "Soda", tamanho |-> "", preco_unitario |-> 5] }

ItemBodies ==
    { [quantidade |-> 2, sabor |-> "Burger", tamanho |-> "Large", preco_unitario |-> 10],
      [quantidade |-> 1, sabor |-> "Soda", tamanho |-> "Can", preco_unitario |-> 5],
      [quantidade |-> 0, sabor |-> "Soda", tamanho |-> "Can", preco_unitario |-> 5],
      [quantidade |-> 1, sabor |-> "Soda", tamanho |-> "Can", preco_unitario |-> -1] }

NoBody == [vazio |-> TRUE]

(* Bearer tokens *)

NoToken == [tipo |-> "ausente", sub |-> 0, exp |-> 0]

Jwt(sub, exp) == [tipo |-> "jwt", sub |-> sub, exp |-> exp]

(* What the handler answered to the last request *)

Resposta(op, tok, alvo, body, code) ==
    [op |-> op, tok |-> tok, alvo |-> alvo, body |-> body, code |-> code, detail |-> "",
     lista |-> {}, access |-> NoToken, refresh |-> NoToken]

----------------------------------------------------------------------------
(* Queries *)

Min(S) == CHOOSE x \in S : \A y \in S : x <= y

Max(S) == CHOOSE x \in S : \A y \in S : x >= y

\* session.query(Usuario).filter(Usuario.email == email).first(): row id, 0 for None
usuario_por_email(email) ==
    LET achados == {i \in 1..Len(usuarios) : usuarios[i].email = email}
    IN  IF achados = {} THEN 0 ELSE Min(achados)

\* session.query(Pedido).filter(Pedido.id == id_pedido).first() is not None
pedido_existe(id_pedido) == id_pedido \in 1..Len(pedidos)

\* session.query(ItemPedido).filter(ItemPedido.id == id_item_pedido).first() is not None
item_existe(id_item_pedido) == id_item_pedido \in DOMAIN itens

----------------------------------------------------------------------------
(* Tokens *)

\* Slip: the duration is taken for the expiry instant
criar_token_sem_agora(id_usuario, duracao_token) == Jwt(id_usuario, duracao_token)

\* jwt.encode({"sub": str(id_usuario), "exp": now + duracao_token}, SECRET_KEY, ALGORITHM)
criar_token(id_usuario, duracao_token) == Jwt(id_usuario, now + duracao_token)

\* Slip: decoding with the exp check switched off
jwt_decodifica_sem_exp(tok) == tok.tipo = "jwt"

\* Slip: a token that outlives an access token is refused
jwt_decodifica_com_idade_maxima(tok) ==
    tok.tipo = "jwt" /\ tok.exp >= now /\ tok.exp <= now + ACCESS_TOKEN_EXPIRE_MINUTES

\* jwt.decode accepts a token signed with SECRET_KEY whose exp has not passed
jwt_decodifica(tok) == tok.tipo = "jwt" /\ tok.exp >= now

\* The account a bearer token resolves to; 0 when the request is answered 401
verificar_token(tok) ==
    IF jwt_decodifica(tok) /\ tok.sub \in 1..Len(usuarios) THEN tok.sub ELSE 0

\* What a client can put in the Authorization header
Apresentaveis ==
    tokens \cup
    { NoToken,
      [tipo |-> "malformado", sub |-> 0, exp |-> 0],
      [tipo |-> "assinatura_invalida", sub |-> 1, exp |-> now + ACCESS_TOKEN_EXPIRE_MINUTES] }

\* Slip: the password is not verified
autenticar_usuario_sem_senha(email, senha) == usuario_por_email(email)

\* autenticar_usuario: the account id, 0 for False
autenticar_usuario(email, senha) ==
    LET usuario == usuario_por_email(email)
    IN  IF usuario = 0 THEN 0
        ELSE IF ~ bcrypt_verify(senha, usuarios[usuario].senha) THEN 0
        ELSE usuario

----------------------------------------------------------------------------
(* /auth *)

\* detail of the HTTPException of login and login_form
UsuarioOuSenhaInvalidos == "Usuario ou senha invalidos"

LoginBodies ==
    { [email |-> "adm@x.com", senha |-> "pw0"],
      [email |-> "ana@x.com", senha |-> "pw1"],
      [email |-> "ana@x.com", senha |-> "pw2"],
      [email |-> "bia@x.com", senha |-> "pw2"] }

\* Slip: the email is compared with the first account only
email_em_uso_primeiro(email) == usuarios[1].email = email

email_em_uso(email) == usuario_por_email(email) # 0

\* Slip: the request's ativo is stored
novo_usuario_ativo_do_schema(usuario_schema) ==
    Usuario(usuario_schema.nome, usuario_schema.email,
            bcrypt_hash(usuario_schema.senha), usuario_schema.ativo, FALSE)

novo_usuario(usuario_schema) ==
    Usuario(usuario_schema.nome, usuario_schema.email,
            bcrypt_hash(usuario_schema.senha), TRUE, FALSE)

novo_admin(usuario_schema) ==
    Usuario(usuario_schema.nome, usuario_schema.email,
            bcrypt_hash(usuario_schema.senha), TRUE, TRUE)

\* Slip: the active flag is read for the admin flag
eh_admin_le_ativo(usuario) == usuarios[usuario].ativo

eh_admin(usuario) == usuarios[usuario].admin

criar_conta(usuario_schema) ==
    /\ IF email_em_uso(usuario_schema.email)
       THEN /\ resp' = Resposta("criar_conta", NoToken, 0, usuario_schema, HTTP_400_BAD_REQUEST)
            /\ UNCHANGED usuarios
       ELSE /\ usuarios' = Append(usuarios, novo_usuario(usuario_schema))
            /\ resp' = Resposta("criar_conta", NoToken, 0, usuario_schema, HTTP_201_CREATED)
    /\ UNCHANGED <<pedidos, itens, tokens, now, sessoes, escritor>>

criar_admin(tok, usuario_schema) ==
    LET usuario_logado == verificar_token(tok)
        R(code) == Resposta("criar_admin", tok, 0, usuario_schema, code)
    IN  /\ IF usuario_logado = 0
           THEN resp' = R(HTTP_401_UNAUTHORIZED) /\ UNCHANGED usuarios
           ELSE IF ~ eh_admin(usuario_logado)
           THEN resp' = R(HTTP_403_FORBIDDEN) /\ UNCHANGED usuarios
           ELSE IF email_em_uso(usuario_schema.email)
           THEN resp' = R(HTTP_400_BAD_REQUEST) /\ UNCHANGED usuarios
           ELSE /\ usuarios' = Append(usuarios, novo_admin(usuario_schema))
                /\ resp' = R(HTTP_201_CREATED)
        /\ UNCHANGED <<pedidos, itens, tokens, now, sessoes, escritor>>

login(login_schema) ==
    LET usuario == autenticar_usuario(login_schema.email, login_schema.senha)
        access_token == criar_token(usuario, ACCESS_TOKEN_EXPIRE_MINUTES)
        refresh_token == criar_token(usuario, REFRESH_TOKEN_EXPIRE_MINUTES)
        R(code) == Resposta("login", NoToken, 0, login_schema, code)
    IN  /\ IF usuario = 0
           THEN /\ resp' = [R(HTTP_401_UNAUTHORIZED) EXCEPT !.detail = UsuarioOuSenhaInvalidos]
                /\ UNCHANGED tokens
           ELSE /\ Cardinality(tokens \cup {access_token, refresh_token}) <= MaxTokens
                /\ tokens' = tokens \cup {access_token, refresh_token}
                /\ resp' = [R(HTTP_200_OK) EXCEPT !.access = access_token,
                                                 !.refresh = refresh_token]
        /\ UNCHANGED <<usuarios, pedidos, itens, now, sessoes, escritor>>

login_form(dados_formulario) ==
    LET usuario == autenticar_usuario(dados_formulario.email, dados_formulario.senha)
        access_token == criar_token(usuario, ACCESS_TOKEN_EXPIRE_MINUTES)
        R(code) == Resposta("login_form", NoToken, 0, dados_formulario, code)
    IN  /\ IF usuario = 0
           THEN /\ resp' = [R(HTTP_401_UNAUTHORIZED) EXCEPT !.detail = UsuarioOuSenhaInvalidos]
                /\ UNCHANGED tokens
           ELSE /\ Cardinality(tokens \cup {access_token}) <= MaxTokens
                /\ tokens' = tokens \cup {access_token}
                /\ resp' = [R(HTTP_200_OK) EXCEPT !.access = access_token]
        /\ UNCHANGED <<usuarios, pedidos, itens, now, sessoes, escritor>>

\* Slip: only a token that outlives an access token is taken for a refresh token
use_refresh_token_so_de_login(tok) ==
    LET usuario == IF tok.exp > now + ACCESS_TOKEN_EXPIRE_MINUTES
                   THEN verificar_token(tok) ELSE 0
        access_token == criar_token(usuario, ACCESS_TOKEN_EXPIRE_MINUTES)
        R(code) == Resposta("use_refresh_token", tok, 0, NoBody, code)
    IN  /\ IF usuario = 0
           THEN resp' = R(HTTP_401_UNAUTHORIZED) /\ UNCHANGED tokens
           ELSE /\ Cardinality(tokens \cup {access_token}) <= MaxTokens
                /\ tokens' = tokens \cup {access_token}
                /\ resp' = [R(HTTP_200_OK) EXCEPT !.access = access_token]
        /\ UNCHANGED <<usuarios, pedidos, itens, now, sessoes, escritor>>

use_refresh_token(tok) ==
    LET usuario == verificar_token(tok)
        access_token == criar_token(usuario, ACCESS_TOKEN_EXPIRE_MINUTES)
        R(code) == Resposta("use_refresh_token", tok, 0, NoBody, code)
    IN  /\ IF usuario = 0
           THEN resp' = R(HTTP_401_UNAUTHORIZED) /\ UNCHANGED tokens
           ELSE /\ Cardinality(tokens \cup {access_token}) <= MaxTokens
                /\ tokens' = tokens \cup {access_token}
                /\ resp' = [R(HTTP_200_OK) EXCEPT !.access = access_token]
        /\ UNCHANGED <<usuarios, pedidos, itens, now, sessoes, escritor>>

\* Time passes until just after some token handed out has expired
Tick ==
    /\ \E t \in tokens : t.exp >= now /\ now' = t.exp + 1
    /\ resp' = Resposta("tick", NoToken, 0, NoBody, 0)
    /\ UNCHANGED <<usuarios, pedidos, itens, tokens, sessoes, escritor>>

\* Time passes until the very instant some token handed out expires
TickAte ==
    /\ \E t \in tokens : t.exp > now /\ now' = t.exp
    /\ resp' = Resposta("tick", NoToken, 0, NoBody, 0)
    /\ UNCHANGED <<usuarios, pedidos, itens, tokens, sessoes, escritor>>

----------------------------------------------------------------------------
(* Pedido.itens and Pedido.calcular_preco *)

\* relationship("ItemPedido"): ids of the rows of itens_pedido whose pedido is id_pedido
itens_do_pedido(its, id_pedido) == {i \in DOMAIN its : its[i].pedido = id_pedido}

RECURSIVE soma(_, _)
soma(its, ids) ==
    IF ids = {} THEN 0
    ELSE LET i == Min(ids)
         IN  its[i].preco_unitario * its[i].quantidade + soma(its, ids \ {i})

RECURSIVE soma_sem_quantidade(_, _)
soma_sem_quantidade(its, ids) ==
    IF ids = {} THEN 0
    ELSE LET i == Min(ids)
         IN  its[i].preco_unitario + soma_sem_quantidade(its, ids \ {i})

\* Slip: the unit prices are summed, the quantities forgotten
calcular_preco_sem_quantidade(its, id_pedido) ==
    soma_sem_quantidade(its, itens_do_pedido(its, id_pedido))

\* sum(item.preco_unitario * item.quantidade for item in self.itens)
calcular_preco(its, id_pedido) == soma(its, itens_do_pedido(its, id_pedido))

\* The request's session flushes what is pending before it runs a query
\* (sessionmaker's default), so the load of Pedido.itens sees the pending change
autoflush == TRUE

\* Rows of itens_pedido the load of Pedido.itens reads
itens_visiveis(gravados, pendentes) == IF autoflush THEN pendentes ELSE gravados

\* Rows of itens_pedido once the pending INSERT / DELETE is flushed
session_add(its, id, row) == [i \in DOMAIN its \cup {id} |-> IF i = id THEN row ELSE its[i]]

session_delete(its, id) == [i \in DOMAIN its \ {id} |-> its[i]]

\* Integer primary key of a new row of itens_pedido
novo_id_item == IF DOMAIN itens = {} THEN 1 ELSE Max(DOMAIN itens) + 1

----------------------------------------------------------------------------
(* /pedidos *)

\* Slip: "or" for "and" in the refusal, so that only an admin owner passes
autorizado_admin_e_dono(usuario, dono) == usuarios[usuario].admin /\ usuario = dono

\* not usuario.admin and usuario.id != pedido.usuario, negated
autorizado(usuario, dono) == usuarios[usuario].admin \/ usuario = dono

\* Slip: the caller is looked at before the order, so that a caller who is not admin
\* is refused an order that does not exist
obter_pedido_autorizado_dono_primeiro(usuario, id_pedido) ==
    IF ~ usuarios[usuario].admin
       /\ ~ (pedido_existe(id_pedido) /\ pedidos[id_pedido].usuario = usuario)
    THEN HTTP_403_FORBIDDEN
    ELSE IF ~ pedido_existe(id_pedido) THEN HTTP_404_NOT_FOUND
    ELSE HTTP_200_OK

\* Slip: an order that is closed is refused to everyone
obter_pedido_autorizado_so_abertos(usuario, id_pedido) ==
    IF ~ pedido_existe(id_pedido) THEN HTTP_404_NOT_FOUND
    ELSE IF ~ autorizado(usuario, pedidos[id_pedido].usuario) THEN HTTP_403_FORBIDDEN
    ELSE IF pedidos[id_pedido].status \in {"FINALIZADO", "CANCELADO"} THEN HTTP_403_FORBIDDEN
    ELSE HTTP_200_OK

\* obter_pedido_autorizado: 404, 403, or 200 when the order is handed to the route
obter_pedido_autorizado(usuario, id_pedido) ==
    IF ~ pedido_existe(id_pedido) THEN HTTP_404_NOT_FOUND
    ELSE IF ~ autorizado(usuario, pedidos[id_pedido].usuario) THEN HTTP_403_FORBIDDEN
    ELSE HTTP_200_OK

\* Slip: the item is handed to the route without looking at the owner of its order
obter_item_pedido_autorizado_sem_dono(usuario, id_item_pedido) ==
    IF ~ item_existe(id_item_pedido) THEN HTTP_404_NOT_FOUND ELSE HTTP_200_OK

\* obter_item_pedido_autorizado: 404, 403, or 200 when the item is handed to the route
obter_item_pedido_autorizado(usuario, id_item_pedido) ==
    IF ~ item_existe(id_item_pedido) THEN HTTP_404_NOT_FOUND
    ELSE IF ~ autorizado(usuario, pedidos[itens[id_item_pedido].pedido].usuario)
         THEN HTTP_403_FORBIDDEN
    ELSE HTTP_200_OK

\* Slip: only an order already cancelled is refused
pode_cancelar_nao_cancelado(status) == status # "CANCELADO"

pode_cancelar(status) == status \in {"PENDENTE", "EM_PREPARO"}

\* Slip: only an order already finalized is refused
pode_finalizar_nao_finalizado(status) == status # "FINALIZADO"

\* Slip: Finalize guarded like Cancel
pode_finalizar_como_cancelar(status) == status \in {"PENDENTE", "EM_PREPARO"}

pode_finalizar(status) == status = "EM_PREPARO"

\* Slip: the constraint on preco_unitario is missing
item_schema_valido_sem_preco(item_schema) == item_schema.quantidade >= 1

\* ItemPedidoSchema: quantidade ge=1, preco_unitario ge=0
item_schema_valido(item_schema) ==
    item_schema.quantidade >= 1 /\ item_schema.preco_unitario >= 0

todos_pedidos == 1..Len(pedidos)

\* Slip: the filter on Pedido.usuario is missing
meus_pedidos_sem_filtro(usuario) == 1..Len(pedidos)

meus_pedidos(usuario) == {p \in 1..Len(pedidos) : pedidos[p].usuario = usuario}

listar_todos_pedidos(tok) ==
    LET usuario == verificar_token(tok)
        R(code) == Resposta("listar_todos_pedidos", tok, 0, NoBody, code)
    IN  /\ IF usuario = 0 THEN resp' = R(HTTP_401_UNAUTHORIZED)
           ELSE IF ~ eh_admin(usuario) THEN resp' = R(HTTP_403_FORBIDDEN)
           ELSE resp' = [R(HTTP_200_OK) EXCEPT !.lista = todos_pedidos]
        /\ UNCHANGED <<usuarios, pedidos, itens, tokens, now, sessoes, escritor>>

criar_pedido(tok) ==
    LET usuario == verificar_token(tok)
        R(code) == Resposta("criar_pedido", tok, 0, NoBody, code)
    IN  /\ IF usuario = 0 THEN resp' = R(HTTP_401_UNAUTHORIZED) /\ UNCHANGED pedidos
           ELSE /\ Len(pedidos) < MaxPedidos
                /\ pedidos' = Append(pedidos, Pedido(usuario))
                /\ resp' = [R(HTTP_201_CREATED) EXCEPT !.lista = {Len(pedidos) + 1}]
        /\ UNCHANGED <<usuarios, itens, tokens, now, sessoes, escritor>>

listar_meus_pedidos(tok) ==
    LET usuario == verificar_token(tok)
        R(code) == Resposta("listar_meus_pedidos", tok, 0, NoBody, code)
    IN  /\ IF usuario = 0 THEN resp' = R(HTTP_401_UNAUTHORIZED)
           ELSE resp' = [R(HTTP_200_OK) EXCEPT !.lista = meus_pedidos(usuario)]
        /\ UNCHANGED <<usuarios, pedidos, itens, tokens, now, sessoes, escritor>>

visualizar_pedido(tok, id_pedido) ==
    LET usuario == verificar_token(tok)
        R(code) == Resposta("visualizar_pedido", tok, IF code = HTTP_401_UNAUTHORIZED THEN 0 ELSE id_pedido, NoBody, code)
    IN  /\ IF usuario = 0 THEN resp' = R(HTTP_401_UNAUTHORIZED)
           ELSE IF obter_pedido_autorizado(usuario, id_pedido) # HTTP_200_OK
           THEN resp' = R(obter_pedido_autorizado(usuario, id_pedido))
           ELSE resp' = [R(HTTP_200_OK) EXCEPT !.lista = {id_pedido}]
        /\ UNCHANGED <<usuarios, pedidos, itens, tokens, now, sessoes, escritor>>

\* Slip: the cancelled order is handed over to the caller
cancelar_pedido_troca_dono(tok, id_pedido) ==
    LET usuario == verificar_token(tok)
        R(code) == Resposta("cancelar_pedido", tok, IF code = HTTP_401_UNAUTHORIZED THEN 0 ELSE id_pedido, NoBody, code)
    IN  /\ IF usuario = 0 THEN resp' = R(HTTP_401_UNAUTHORIZED) /\ UNCHANGED pedidos
           ELSE IF obter_pedido_autorizado(usuario, id_pedido) # HTTP_200_OK
           THEN resp' = R(obter_pedido_autorizado(usuario, id_pedido)) /\ UNCHANGED pedidos
           ELSE IF ~ pode_cancelar(pedidos[id_pedido].status)
           THEN resp' = R(HTTP_400_BAD_REQUEST) /\ UNCHANGED pedidos
           ELSE /\ pedidos' = [pedidos EXCEPT ![id_pedido].status = "CANCELADO",
                                              ![id_pedido].usuario = usuario]
                /\ resp' = [R(HTTP_200_OK) EXCEPT !.lista = {id_pedido}]
        /\ UNCHANGED <<usuarios, itens, tokens, now, sessoes, escritor>>

cancelar_pedido(tok, id_pedido) ==
    LET usuario == verificar_token(tok)
        R(code) == Resposta("cancelar_pedido", tok, IF code = HTTP_401_UNAUTHORIZED THEN 0 ELSE id_pedido, NoBody, code)
    IN  /\ IF usuario = 0 THEN resp' = R(HTTP_401_UNAUTHORIZED) /\ UNCHANGED pedidos
           ELSE IF obter_pedido_autorizado(usuario, id_pedido) # HTTP_200_OK
           THEN resp' = R(obter_pedido_autorizado(usuario, id_pedido)) /\ UNCHANGED pedidos
           ELSE IF ~ pode_cancelar(pedidos[id_pedido].status)
           THEN resp' = R(HTTP_400_BAD_REQUEST) /\ UNCHANGED pedidos
           ELSE /\ pedidos' = [pedidos EXCEPT ![id_pedido].status = "CANCELADO"]
                /\ resp' = [R(HTTP_200_OK) EXCEPT !.lista = {id_pedido}]
        /\ UNCHANGED <<usuarios, itens, tokens, now, sessoes, escritor>>

\* Slip: finalizing recomputes the price of an order taken to have no item
finalizar_pedido_zera_preco(tok, id_pedido) ==
    LET usuario == verificar_token(tok)
        R(code) == Resposta("finalizar_pedido", tok, IF code = HTTP_401_UNAUTHORIZED THEN 0 ELSE id_pedido, NoBody, code)
    IN  /\ IF usuario = 0 THEN resp' = R(HTTP_401_UNAUTHORIZED) /\ UNCHANGED pedidos
           ELSE IF obter_pedido_autorizado(usuario, id_pedido) # HTTP_200_OK
           THEN resp' = R(obter_pedido_autorizado(usuario, id_pedido)) /\ UNCHANGED pedidos
           ELSE IF ~ pode_finalizar(pedidos[id_pedido].status)
           THEN resp' = R(HTTP_400_BAD_REQUEST) /\ UNCHANGED pedidos
           ELSE /\ pedidos' = [pedidos EXCEPT ![id_pedido].status = "FINALIZADO",
                                              ![id_pedido].preco = 0]
                /\ resp' = [R(HTTP_200_OK) EXCEPT !.lista = {id_pedido}]
        /\ UNCHANGED <<usuarios, itens, tokens, now, sessoes, escritor>>

finalizar_pedido(tok, id_pedido) ==
    LET usuario == verificar_token(tok)
        R(code) == Resposta("finalizar_pedido", tok, IF code = HTTP_401_UNAUTHORIZED THEN 0 ELSE id_pedido, NoBody, code)
    IN  /\ IF usuario = 0 THEN resp' = R(HTTP_401_UNAUTHORIZED) /\ UNCHANGED pedidos
           ELSE IF obter_pedido_autorizado(usuario, id_pedido) # HTTP_200_OK
           THEN resp' = R(obter_pedido_autorizado(usuario, id_pedido)) /\ UNCHANGED pedidos
           ELSE IF ~ pode_finalizar(pedidos[id_pedido].status)
           THEN resp' = R(HTTP_400_BAD_REQUEST) /\ UNCHANGED pedidos
           ELSE /\ pedidos' = [pedidos EXCEPT ![id_pedido].status = "FINALIZADO"]
                /\ resp' = [R(HTTP_200_OK) EXCEPT !.lista = {id_pedido}]
        /\ UNCHANGED <<usuarios, itens, tokens, now, sessoes, escritor>>

adicionar_item_pedido(tok, id_pedido, item_schema) ==
    LET usuario == verificar_token(tok)
        R(code) == Resposta("adicionar_item_pedido", tok,
                            IF code = HTTP_401_UNAUTHORIZED THEN 0 ELSE id_pedido,
                            IF code = HTTP_401_UNAUTHORIZED THEN NoBody ELSE item_schema,
                            code)
        item_pedido == ItemPedido(item_schema.quantidade, item_schema.sabor,
                                  item_schema.tamanho, item_schema.preco_unitario, id_pedido)
        flushed == session_add(itens, novo_id_item, item_pedido)
    IN  /\ IF usuario = 0
           THEN resp' = R(HTTP_401_UNAUTHORIZED) /\ UNCHANGED <<pedidos, itens>>
           ELSE IF obter_pedido_autorizado(usuario, id_pedido) # HTTP_200_OK
           THEN /\ resp' = R(obter_pedido_autorizado(usuario, id_pedido))
                /\ UNCHANGED <<pedidos, itens>>
           ELSE IF ~ item_schema_valido(item_schema)
           THEN resp' = R(HTTP_422_UNPROCESSABLE) /\ UNCHANGED <<pedidos, itens>>
           ELSE /\ novo_id_item <= MaxItens
                /\ itens' = flushed
                /\ pedidos' = [pedidos EXCEPT
                                 ![id_pedido].preco =
                                    calcular_preco(itens_visiveis(itens, flushed), id_pedido)]
                /\ resp' = [R(HTTP_200_OK) EXCEPT !.lista = {id_pedido}]
        /\ UNCHANGED <<usuarios, tokens, now, sessoes, escritor>>

remover_item_pedido(tok, id_item_pedido) ==
    LET usuario == verificar_token(tok)
        R(code) == Resposta("remover_item_pedido", tok, IF code = HTTP_401_UNAUTHORIZED THEN 0 ELSE id_item_pedido, NoBody, code)
        id_pedido == itens[id_item_pedido].pedido
        flushed == session_delete(itens, id_item_pedido)
    IN  /\ IF usuario = 0
           THEN resp' = R(HTTP_401_UNAUTHORIZED) /\ UNCHANGED <<pedidos, itens>>
           ELSE IF obter_item_pedido_autorizado(usuario, id_item_pedido) # HTTP_200_OK
           THEN /\ resp' = R(obter_item_pedido_autorizado(usuario, id_item_pedido))
                /\ UNCHANGED <<pedidos, itens>>
           ELSE /\ itens' = flushed
                /\ pedidos' = [pedidos EXCEPT
                                 ![id_pedido].preco =
                                    calcular_preco(itens_visiveis(itens, flushed), id_pedido)]
                /\ resp' = [R(HTTP_200_OK) EXCEPT !.lista = {id_pedido}]
        /\ UNCHANGED <<usuarios, tokens, now, sessoes, escritor>>

----------------------------------------------------------------------------
(* Requests served at the same time.  Every request works on a session of its *)
(* own over the one SQLite file: what it has loaded stays as loaded, its      *)
(* INSERT or DELETE takes the write lock of the file and is seen by no other  *)
(* session until the COMMIT, which also gives the lock back.                  *)

Livre ==
    [pc |-> "livre", op |-> "", tok |-> NoToken, alvo |-> 0, body |-> NoBody,
     pedido |-> 0, preco_carregado |-> 0, preco |-> 0, linhas |-> <<>>]

SemRequisicoes ==
    /\ sessoes = [s \in 1..MaxSessoes |-> Livre]
    /\ escritor = 0

\* Slip: what the transaction had written stays in the file
session_rollback_grava(gravados, transacao) == transacao

\* The transaction is abandoned: the file keeps the rows of the last commit
session_rollback(gravados, transacao) == gravados

\* UPDATE pedidos SET preco: the unit of work writes the columns whose value differs
\* from the value loaded
session_update_preco(peds, id_pedido, carregado, preco) ==
    IF preco # carregado THEN [peds EXCEPT ![id_pedido].preco = preco] ELSE peds

\* verificar_token and obter_pedido_autorizado have let the request through and the
\* body has validated: the order is loaded in the session
adicionar_item_pedido_autorizado(s, tok, id_pedido, item_schema) ==
    /\ sessoes[s].pc = "livre"
    /\ verificar_token(tok) # 0
    /\ obter_pedido_autorizado(verificar_token(tok), id_pedido) = HTTP_200_OK
    /\ item_schema_valido(item_schema)
    /\ sessoes' = [sessoes EXCEPT ![s] =
                     [pc |-> "autorizado", op |-> "adicionar_item_pedido", tok |-> tok,
                      alvo |-> id_pedido, body |-> item_schema, pedido |-> id_pedido,
                      preco_carregado |-> pedidos[id_pedido].preco,
                      preco |-> pedidos[id_pedido].preco, linhas |-> <<>>]]
    /\ UNCHANGED <<usuarios, pedidos, itens, tokens, now, resp, escritor>>

\* verificar_token and obter_item_pedido_autorizado have let the request through:
\* the item and its order are loaded in the session
remover_item_pedido_autorizado(s, tok, id_item_pedido) ==
    /\ sessoes[s].pc = "livre"
    /\ verificar_token(tok) # 0
    /\ obter_item_pedido_autorizado(verificar_token(tok), id_item_pedido) = HTTP_200_OK
    /\ sessoes' = [sessoes EXCEPT ![s] =
                     [pc |-> "autorizado", op |-> "remover_item_pedido", tok |-> tok,
                      alvo |-> id_item_pedido, body |-> NoBody,
                      pedido |-> itens[id_item_pedido].pedido,
                      preco_carregado |-> pedidos[itens[id_item_pedido].pedido].preco,
                      preco |-> pedidos[itens[id_item_pedido].pedido].preco,
                      linhas |-> <<>>]]
    /\ UNCHANGED <<usuarios, pedidos, itens, tokens, now, resp, escritor>>

\* session.add / session.delete reach the file when calcular_preco touches self.itens:
\* the INSERT or DELETE waits for the write lock and happens in the transaction
session_flush(s) ==
    LET r == sessoes[s]
        item_pedido == ItemPedido(r.body.quantidade, r.body.sabor, r.body.tamanho,
                                  r.body.preco_unitario, r.pedido)
    IN  /\ r.pc = "autorizado"
        /\ r.op \in {"adicionar_item_pedido", "remover_item_pedido"}
        /\ escritor = 0
        /\ IF r.op = "adicionar_item_pedido"
           THEN /\ novo_id_item <= MaxItens
                /\ sessoes' = [sessoes EXCEPT ![s].pc = "gravado",
                                              ![s].linhas = session_add(itens, novo_id_item, item_pedido)]
           ELSE sessoes' = [sessoes EXCEPT ![s].pc = "gravado",
                                           ![s].linhas = session_delete(itens, r.alvo)]
        /\ escritor' = s
        /\ UNCHANGED <<usuarios, pedidos, itens, tokens, now, resp>>

\* pedido.calcular_preco(): the item set is read in the transaction and the sum is
\* assigned to the loaded order
pedido_calcular_preco(s) ==
    /\ sessoes[s].pc = "gravado"
    /\ sessoes' = [sessoes EXCEPT
                     ![s].pc = "calculado",
                     ![s].preco = calcular_preco(itens_visiveis(itens, sessoes[s].linhas),
                                                 sessoes[s].pedido)]
    /\ UNCHANGED <<usuarios, pedidos, itens, tokens, now, resp, escritor>>

\* session.commit(): the UPDATE of the order, then the COMMIT; the answer is the order
session_commit(s) ==
    LET r == sessoes[s]
    IN  /\ r.pc = "calculado"
        /\ itens' = r.linhas
        /\ pedidos' = session_update_preco(pedidos, r.pedido, r.preco_carregado, r.preco)
        /\ escritor' = 0
        /\ sessoes' = [sessoes EXCEPT ![s] = Livre]
        /\ resp' = [Resposta(r.op, r.tok, r.alvo, r.body, HTTP_200_OK) EXCEPT !.lista = {r.pedido}]
        /\ UNCHANGED <<usuarios, tokens, now>>

\* Slip: the whole row of the order is written as the session had loaded it
session_update_status_linha_toda(peds, id_pedido, preco_carregado, status) ==
    [peds EXCEPT ![id_pedido].status = status, ![id_pedido].preco = preco_carregado]

\* UPDATE pedidos SET status: the unit of work writes the column that was assigned
session_update_status(peds, id_pedido, preco_carregado, status) ==
    [peds EXCEPT ![id_pedido].status = status]

\* verificar_token and obter_pedido_autorizado have let the request through and the
\* order is loaded in the session; 400 unless its status lets it be cancelled
cancelar_pedido_autorizado(s, tok, id_pedido) ==
    /\ sessoes[s].pc = "livre"
    /\ verificar_token(tok) # 0
    /\ obter_pedido_autorizado(verificar_token(tok), id_pedido) = HTTP_200_OK
    /\ IF ~ pode_cancelar(pedidos[id_pedido].status)
       THEN /\ resp' = Resposta("cancelar_pedido", tok, id_pedido, NoBody, HTTP_400_BAD_REQUEST)
            /\ UNCHANGED sessoes
       ELSE /\ sessoes' = [sessoes EXCEPT ![s] =
                             [Livre EXCEPT !.pc = "autorizado", !.op = "cancelar_pedido",
                                           !.tok = tok, !.alvo = id_pedido,
                                           !.pedido = id_pedido,
                                           !.preco_carregado = pedidos[id_pedido].preco,
                                           !.preco = pedidos[id_pedido].preco]]
            /\ UNCHANGED resp
    /\ UNCHANGED <<usuarios, pedidos, itens, tokens, now, escritor>>

\* pedido.status = "CANCELADO"; session.commit(): the UPDATE waits for the write lock
\* and is committed; the answer is the order
cancelar_pedido_commit(s) ==
    LET r == sessoes[s]
    IN  /\ r.pc = "autorizado"
        /\ r.op = "cancelar_pedido"
        /\ escritor = 0
        /\ pedidos' = session_update_status(pedidos, r.pedido, r.preco_carregado, "CANCELADO")
        /\ sessoes' = [sessoes EXCEPT ![s] = Livre]
        /\ resp' = [Resposta(r.op, r.tok, r.alvo, NoBody, HTTP_200_OK) EXCEPT !.lista = {r.pedido}]
        /\ UNCHANGED <<usuarios, itens, tokens, now, escritor>>

\* criar_conta up to its query for the email: 400 if an account has it
criar_conta_verificado(s, usuario_schema) ==
    /\ sessoes[s].pc = "livre"
    /\ IF email_em_uso(usuario_schema.email)
       THEN /\ resp' = Resposta("criar_conta", NoToken, 0, usuario_schema, HTTP_400_BAD_REQUEST)
            /\ UNCHANGED sessoes
       ELSE /\ sessoes' = [sessoes EXCEPT ![s] =
                             [Livre EXCEPT !.pc = "verificado", !.op = "criar_conta",
                                           !.body = usuario_schema]]
            /\ UNCHANGED resp
    /\ UNCHANGED <<usuarios, pedidos, itens, tokens, now, escritor>>

\* criar_admin up to its query for the email: 401, 403, or 400 if an account has it
criar_admin_verificado(s, tok, usuario_schema) ==
    LET usuario_logado == verificar_token(tok)
        R(code) == Resposta("criar_admin", tok, 0, usuario_schema, code)
    IN  /\ sessoes[s].pc = "livre"
        /\ IF usuario_logado = 0
           THEN resp' = R(HTTP_401_UNAUTHORIZED) /\ UNCHANGED sessoes
           ELSE IF ~ eh_admin(usuario_logado)
           THEN resp' = R(HTTP_403_FORBIDDEN) /\ UNCHANGED sessoes
           ELSE IF email_em_uso(usuario_schema.email)
           THEN resp' = R(HTTP_400_BAD_REQUEST) /\ UNCHANGED sessoes
           ELSE /\ sessoes' = [sessoes EXCEPT ![s] =
                                 [Livre EXCEPT !.pc = "verificado", !.op = "criar_admin",
                                               !.tok = tok, !.body = usuario_schema]]
                /\ UNCHANGED resp
        /\ UNCHANGED <<usuarios, pedidos, itens, tokens, now, escritor>>

\* session.add(novo_usuario); session.commit(): the INSERT and the COMMIT of the account
novo_usuario_commit(s) ==
    LET r == sessoes[s]
    IN  /\ r.pc = "verificado"
        /\ escritor = 0
        /\ usuarios' = Append(usuarios, IF r.op = "criar_conta" THEN novo_usuario(r.body)
                                        ELSE novo_admin(r.body))
        /\ sessoes' = [sessoes EXCEPT ![s] = Livre]
        /\ resp' = Resposta(r.op, r.tok, 0, r.body, HTTP_201_CREATED)
        /\ UNCHANGED <<pedidos, itens, tokens, now, escritor>>

\* The database raises while the request is between its first query and the end of
\* its COMMIT (the lock is not granted, the disk is full, the file is gone): the
\* exception leaves the handler, the session is closed and the answer is 500
falha_de_persistencia(s) ==
    LET r == sessoes[s]
    IN  /\ r.pc \in {"autorizado", "gravado", "calculado", "verificado"}
        /\ itens' = IF r.pc \in {"gravado", "calculado"}
                    THEN session_rollback(itens, r.linhas) ELSE itens
        /\ escritor' = IF escritor = s THEN 0 ELSE escritor
        /\ sessoes' = [sessoes EXCEPT ![s] = Livre]
        /\ resp' = Resposta(r.op, r.tok, r.alvo, r.body, HTTP_500_INTERNAL_SERVER_ERROR)
        /\ UNCHANGED <<usuarios, pedidos, tokens, now>>

----------------------------------------------------------------------------
(* The system *)

\* Order on file for its owner with the status the kitchen left it in
EmArquivo(usuario, status) == [Pedido(usuario) EXCEPT !.status = status]

\* The two accounts of an installed database: the first administrator and a customer
DoisUsuarios ==
    usuarios = << Usuario("Adm", "adm@x.com", bcrypt_hash("pw0"), TRUE, TRUE),
                  Usuario("Ana", "ana@x.com", bcrypt_hash("pw1"), TRUE, FALSE) >>

\* An installed database: two accounts, up to one order of each on file, no item,
\* no token handed out yet
Init ==
    /\ DoisUsuarios
    /\ \E s1 \in Status, s2 \in Status :
          pedidos \in { <<>>, << EmArquivo(1, s1) >>, << EmArquivo(2, s1) >>,
                        << EmArquivo(1, s1), EmArquivo(2, s2) >> }
    /\ itens = <<>>
    /\ tokens = {}
    /\ now = 0
    /\ resp = Resposta("init", NoToken, 0, NoBody, 0)
    /\ SemRequisicoes

IdsPedido == 1..(Len(pedidos) + 1)

IdsItem == 1..(MaxItens + 1)

Next ==
    \/ \E b \in UsuarioBodies : criar_conta(b)
    \/ \E t \in Apresentaveis, b \in UsuarioBodies : criar_admin(t, b)
    \/ \E b \in LoginBodies : login(b)
    \/ \E b \in LoginBodies : login_form(b)
    \/ \E t \in Apresentaveis : use_refresh_token(t)
    \/ \E t \in Apresentaveis : listar_todos_pedidos(t)
    \/ \E t \in Apresentaveis : criar_pedido(t)
    \/ \E t \in Apresentaveis : listar_meus_pedidos(t)
    \/ \E t \in Apresentaveis, p \in IdsPedido : visualizar_pedido(t, p)
    \/ \E t \in Apresentaveis, p \in IdsPedido : cancelar_pedido(t, p)
    \/ \E t \in Apresentaveis, p \in IdsPedido : finalizar_pedido(t, p)
    \/ \E t \in Apresentaveis, p \in IdsPedido, b \in ItemBodies : adicionar_item_pedido(t, p, b)
    \/ \E t \in Apresentaveis, i \in IdsItem : remover_item_pedido(t, i)
    \/ Tick
    \/ TickAte

Spec == Init /\ [][Next]_vars

----------------------------------------------------------------------------
(* Requests explored.  The router dependency answers 401 before the path and   *)
(* the body are looked at, so one path and one body stand for all in that      *)
(* case; obter_pedido_autorizado answers 404/403 before the body is validated, *)
(* so one body that validates and one that does not stand for all in that one. *)

AlvosPedido(t) == IF verificar_token(t) = 0 THEN {1} ELSE IdsPedido

AlvosItem(t) == IF verificar_token(t) = 0 THEN {1} ELSE IdsItem

Corpos(t, p) ==
    IF verificar_token(t) = 0 THEN {CHOOSE b \in ItemBodies : item_schema_valido(b)}
    ELSE IF obter_pedido_autorizado(verificar_token(t), p) # HTTP_200_OK
    THEN {CHOOSE b \in ItemBodies : item_schema_valido(b),
          CHOOSE b \in ItemBodies : ~ item_schema_valido(b)}
    ELSE ItemBodies

\* The state of the tokens after login_form by the administrator at minute 0, Tick,
\* and login_form by both accounts at minute 31: each holds an access token and the
\* administrator's first one has expired
TokensEmitidos ==
    /\ now = ACCESS_TOKEN_EXPIRE_MINUTES + 1
    /\ tokens = { Jwt(1, ACCESS_TOKEN_EXPIRE_MINUTES),
                  Jwt(1, now + ACCESS_TOKEN_EXPIRE_MINUTES),
                  Jwt(2, now + ACCESS_TOKEN_EXPIRE_MINUTES) }

----------------------------------------------------------------------------
(* The order life cycle: creating, listing, reading, cancelling, finalizing *)

InitPedidos ==
    /\ DoisUsuarios
    /\ \E s \in Status, u \in 1..2 : pedidos \in { <<>>, << EmArquivo(u, s) >> }
    /\ itens = <<>>
    /\ TokensEmitidos
    /\ resp = Resposta("init", NoToken, 0, NoBody, 0)
    /\ SemRequisicoes

NextPedidos ==
    \/ \E t \in Apresentaveis : listar_todos_pedidos(t)
    \/ \E t \in Apresentaveis : criar_pedido(t)
    \/ \E t \in Apresentaveis : listar_meus_pedidos(t)
    \/ \E t \in Apresentaveis : \E p \in AlvosPedido(t) : visualizar_pedido(t, p)
    \/ \E t \in Apresentaveis : \E p \in AlvosPedido(t) : cancelar_pedido(t, p)
    \/ \E t \in Apresentaveis : \E p \in AlvosPedido(t) : finalizar_pedido(t, p)

SpecPedidos == InitPedidos /\ [][NextPedidos]_vars

----------------------------------------------------------------------------
(* The items of two orders on file, one of the administrator and one of Ana.   *)
(* No order is added: criar_pedido is reached only by requests whose bearer    *)
(* token is absent, malformed, wrongly signed or past its exp.                 *)

NaoValidos == {t \in Apresentaveis : t.tipo # "jwt" \/ t.exp < now}

InitItens ==
    /\ DoisUsuarios
    /\ \E s1 \in Status, s2 \in Status : pedidos = << EmArquivo(1, s1), EmArquivo(2, s2) >>
    /\ itens = <<>>
    /\ TokensEmitidos
    /\ resp = Resposta("init", NoToken, 0, NoBody, 0)
    /\ SemRequisicoes

NextItens ==
    \/ \E t \in Apresentaveis : listar_todos_pedidos(t)
    \/ \E t \in NaoValidos : criar_pedido(t)
    \/ \E t \in Apresentaveis : listar_meus_pedidos(t)
    \/ \E t \in Apresentaveis : \E p \in AlvosPedido(t) : visualizar_pedido(t, p)
    \/ \E t \in Apresentaveis : \E p \in AlvosPedido(t) : cancelar_pedido(t, p)
    \/ \E t \in Apresentaveis : \E p \in AlvosPedido(t) : finalizar_pedido(t, p)
    \/ \E t \in Apresentaveis : \E p \in AlvosPedido(t) : \E b \in Corpos(t, p) :
          adicionar_item_pedido(t, p, b)
    \/ \E t \in Apresentaveis : \E i \in AlvosItem(t) : remover_item_pedido(t, i)

SpecItens == InitItens /\ [][NextItens]_vars

----------------------------------------------------------------------------
(* Accounts, tokens and the clock.  The order routes are called here only with *)
(* bearer tokens past their exp, so no order is on file.                       *)

Expirados == {t \in tokens : t.exp < now}

InitAuth ==
    /\ DoisUsuarios
    /\ pedidos = <<>>
    /\ itens = <<>>
    /\ tokens = {}
    /\ now = 0
    /\ resp = Resposta("init", NoToken, 0, NoBody, 0)
    /\ SemRequisicoes

NextAuth ==
    \/ \E b \in UsuarioBodies : criar_conta(b)
    \/ \E t \in Apresentaveis, b \in UsuarioBodies : criar_admin(t, b)
    \/ \E b \in LoginBodies : login(b)
    \/ \E b \in LoginBodies : login_form(b)
    \/ \E t \in Apresentaveis : use_refresh_token(t)
    \/ \E t \in Expirados : listar_todos_pedidos(t)
    \/ \E t \in Expirados : criar_pedido(t)
    \/ \E t \in Expirados : listar_meus_pedidos(t)
    \/ \E t \in Expirados : \E p \in AlvosPedido(t) : visualizar_pedido(t, p)
    \/ \E t \in Expirados : \E p \in AlvosPedido(t) : cancelar_pedido(t, p)
    \/ \E t \in Expirados : \E p \in AlvosPedido(t) : finalizar_pedido(t, p)
    \/ \E t \in Expirados : \E p \in AlvosPedido(t) : \E b \in Corpos(t, p) :
          adicionar_item_pedido(t, p, b)
    \/ \E t \in Expirados : \E i \in AlvosItem(t) : remover_item_pedido(t, i)
    \/ Tick

SpecAuth == InitAuth /\ [][NextAuth]_vars

----------------------------------------------------------------------------
(* Sessions: a login hands out the 30-minute and the 7-day token, RefreshAccessToken *)
(* and RegisterAdmin are called with them, and the clock runs up to and past   *)
(* each exp.                                                                   *)

InitSessao ==
    /\ DoisUsuarios
    /\ pedidos = <<>>
    /\ itens = <<>>
    /\ tokens = {}
    /\ now = 0
    /\ resp = Resposta("init", NoToken, 0, NoBody, 0)
    /\ SemRequisicoes

NextSessao ==
    \/ \E b \in LoginBodies : login(b)
    \/ \E t \in tokens : use_refresh_token(t)
    \/ \E t \in tokens, b \in UsuarioBodies : criar_admin(t, b)
    \/ Tick
    \/ TickAte

SpecSessao == InitSessao /\ [][NextSessao]_vars

----------------------------------------------------------------------------
(* The routes that write orders and items, from a store with at most one order *)
(* on file.  The administrator calls with the access token of a login-form and *)
(* Ana with the 7-day token of a login, both of minute 0; RegisterAdmin is     *)
(* called with an email that is taken, so the accounts stay the two.           *)

\* The state of the tokens after login_form by the administrator and login by Ana
TokensDeLogin ==
    /\ now = 0
    /\ tokens = { criar_token(1, ACCESS_TOKEN_EXPIRE_MINUTES),
                  criar_token(2, ACCESS_TOKEN_EXPIRE_MINUTES),
                  criar_token(2, REFRESH_TOKEN_EXPIRE_MINUTES) }

Portadores ==
    tokens \cap { Jwt(1, ACCESS_TOKEN_EXPIRE_MINUTES), Jwt(2, REFRESH_TOKEN_EXPIRE_MINUTES) }

UmItem == {CHOOSE b \in ItemBodies : item_schema_valido(b)}

EmailsTomados == {b \in UsuarioBodies : email_em_uso(b.email)}

InitLoja ==
    /\ DoisUsuarios
    /\ \E s \in Status : pedidos \in { <<>>, << EmArquivo(2, s) >> }
    /\ itens = <<>>
    /\ TokensDeLogin
    /\ resp = Resposta("init", NoToken, 0, NoBody, 0)
    /\ SemRequisicoes

NextLoja ==
    \/ \E t \in Portadores : use_refresh_token(t)
    \/ \E t \in Portadores, b \in EmailsTomados : criar_admin(t, b)
    \/ \E t \in Portadores : criar_pedido(t)
    \/ \E t \in Portadores : \E p \in 1..Len(pedidos) : cancelar_pedido(t, p)
    \/ \E t \in Portadores : \E p \in 1..Len(pedidos) : finalizar_pedido(t, p)
    \/ \E t \in Portadores : \E p \in 1..Len(pedidos) : \E b \in UmItem :
          adicionar_item_pedido(t, p, b)
    \/ \E t \in Portadores : \E i \in DOMAIN itens : remover_item_pedido(t, i)

SpecLoja == InitLoja /\ [][NextLoja]_vars

----------------------------------------------------------------------------
(* The order routes that write, called with the tokens of one login each:     *)
(* orders that exist and one that does not, an item that validates and one    *)
(* that asks for a negative unit price.                                       *)

ItensDoBalcao ==
    UmItem \cup {CHOOSE b \in ItemBodies : b.quantidade >= 1 /\ b.preco_unitario < 0}

NextBalcao ==
    \/ \E t \in Portadores : criar_pedido(t)
    \/ \E t \in Portadores : \E p \in IdsPedido : cancelar_pedido(t, p)
    \/ \E t \in Portadores : \E p \in IdsPedido : finalizar_pedido(t, p)
    \/ \E t \in Portadores : \E p \in 1..Len(pedidos) : \E b \in ItensDoBalcao :
          adicionar_item_pedido(t, p, b)
    \/ \E t \in Portadores : \E i \in DOMAIN itens : remover_item_pedido(t, i)

SpecBalcao == InitLoja /\ [][NextBalcao]_vars

----------------------------------------------------------------------------
(* A database in which nobody is an administrator: one customer account, and  *)
(* every public route called with the tokens the server has handed out; one   *)
(* order is opened.                                                           *)

InitSemAdmin ==
    /\ usuarios = << Usuario("Ana", "ana@x.com", bcrypt_hash("pw1"), TRUE, FALSE) >>
    /\ pedidos = <<>>
    /\ itens = <<>>
    /\ tokens = {}
    /\ now = 0
    /\ resp = Resposta("init", NoToken, 0, NoBody, 0)
    /\ SemRequisicoes

NextSemAdmin ==
    \/ \E b \in UsuarioBodies : criar_conta(b)
    \/ \E t \in tokens, b \in UsuarioBodies : criar_admin(t, b)
    \/ \E b \in LoginBodies : login(b)
    \/ \E b \in LoginBodies : login_form(b)
    \/ \E t \in tokens : use_refresh_token(t)
    \/ \E t \in tokens : listar_todos_pedidos(t)
    \/ pedidos = <<>> /\ \E t \in tokens : criar_pedido(t)
    \/ \E t \in tokens : listar_meus_pedidos(t)
    \/ \E t \in tokens : \E p \in 1..Len(pedidos) : visualizar_pedido(t, p)
    \/ \E t \in tokens : \E p \in 1..Len(pedidos) : cancelar_pedido(t, p)
    \/ \E t \in tokens : \E p \in 1..Len(pedidos) : finalizar_pedido(t, p)
    \/ \E t \in tokens : \E p \in 1..Len(pedidos) : \E b \in UmItem :
          adicionar_item_pedido(t, p, b)
    \/ \E t \in tokens : \E i \in DOMAIN itens : remover_item_pedido(t, i)

SpecSemAdmin == InitSemAdmin /\ [][NextSemAdmin]_vars

----------------------------------------------------------------------------
(* The items of one order on file, added with and without text in the flavor  *)
(* and the size.                                                              *)

InitSabores ==
    /\ DoisUsuarios
    /\ \E s \in Status : pedidos = << EmArquivo(2, s) >>
    /\ itens = <<>>
    /\ TokensDeLogin
    /\ resp = Resposta("init", NoToken, 0, NoBody, 0)
    /\ SemRequisicoes

NextSabores ==
    \/ \E t \in Portadores : \E p \in 1..Len(pedidos) : \E b \in UmItem \cup ItemBodiesSemTexto :
          adicionar_item_pedido(t, p, b)
    \/ \E t \in Portadores : \E i \in DOMAIN itens : remover_item_pedido(t, i)

SpecSabores == InitSabores /\ [][NextSabores]_vars

----------------------------------------------------------------------------
(* A shop that opens without any order: the order routes that write, called   *)
(* by the administrator and by the customer.                                  *)

InitSemPedidos ==
    /\ DoisUsuarios
    /\ pedidos = <<>>
    /\ itens = <<>>
    /\ TokensDeLogin
    /\ resp = Resposta("init", NoToken, 0, NoBody, 0)
    /\ SemRequisicoes

SpecSemPedidos == InitSemPedidos /\ [][NextBalcao]_vars

----------------------------------------------------------------------------
(* AddItem and RemoveItem served at the same time on one order of the         *)
(* customer.                                                                  *)

InitConcorrencia ==
    /\ DoisUsuarios
    /\ pedidos = << EmArquivo(2, "PENDENTE") >>
    /\ itens = <<>>
    /\ TokensDeLogin
    /\ resp = Resposta("init", NoToken, 0, NoBody, 0)
    /\ SemRequisicoes

\* Sessions are alike: a new request is given the free session of least number
SessaoLivre == {s \in 1..MaxSessoes : \A r \in 1..MaxSessoes : sessoes[r].pc = "livre" => s <= r}

\* The customer, logged in once, calls from several devices
DoDono == {t \in Portadores : t.sub = 2}

NextConcorrencia ==
    \E s \in 1..MaxSessoes :
       \/ \E t \in DoDono : \E p \in 1..Len(pedidos) : \E b \in UmItem :
             s \in SessaoLivre /\ adicionar_item_pedido_autorizado(s, t, p, b)
       \/ \E t \in DoDono : \E i \in DOMAIN itens :
             s \in SessaoLivre /\ remover_item_pedido_autorizado(s, t, i)
       \/ session_flush(s)
       \/ pedido_calcular_preco(s)
       \/ session_commit(s)
       \/ falha_de_persistencia(s)

SpecConcorrencia == InitConcorrencia /\ [][NextConcorrencia]_vars

----------------------------------------------------------------------------
(* Cancel served at the same time as one AddItem or RemoveItem on the order   *)
(* of the customer: the item requests come one after another, the Cancel      *)
(* requests at any moment.                                                    *)

SemItemEmCurso ==
    \A r \in 1..MaxSessoes :
        sessoes[r].op \notin {"adicionar_item_pedido", "remover_item_pedido"}

NextCancelar ==
    \E s \in 1..MaxSessoes :
       \/ \E t \in DoDono : \E p \in 1..Len(pedidos) : \E b \in UmItem :
             /\ s \in SessaoLivre /\ SemItemEmCurso
             /\ adicionar_item_pedido_autorizado(s, t, p, b)
       \/ \E t \in DoDono : \E i \in DOMAIN itens :
             /\ s \in SessaoLivre /\ SemItemEmCurso
             /\ remover_item_pedido_autorizado(s, t, i)
       \/ \E t \in DoDono : \E p \in 1..Len(pedidos) :
             s \in SessaoLivre /\ cancelar_pedido_autorizado(s, t, p)
       \/ session_flush(s)
       \/ pedido_calcular_preco(s)
       \/ session_commit(s)
       \/ cancelar_pedido_commit(s)
       \/ falha_de_persistencia(s)

SpecCancelar == InitConcorrencia /\ [][NextCancelar]_vars

----------------------------------------------------------------------------
(* Register and RegisterAdmin served at the same time.                        *)

InitCadastro ==
    /\ DoisUsuarios
    /\ pedidos = <<>>
    /\ itens = <<>>
    /\ TokensDeLogin
    /\ resp = Resposta("init", NoToken, 0, NoBody, 0)
    /\ SemRequisicoes

NextCadastro ==
    \E s \in 1..MaxSessoes :
       \/ \E b \in UsuarioBodies : s \in SessaoLivre /\ criar_conta_verificado(s, b)
       \/ \E t \in Portadores, b \in UsuarioBodies :
             s \in SessaoLivre /\ criar_admin_verificado(s, t, b)
       \/ novo_usuario_commit(s)
       \/ falha_de_persistencia(s)

SpecCadastro == InitCadastro /\ [][NextCadastro]_vars

----------------------------------------------------------------------------
(* Vocabulary of the properties, stated on the store and the tokens directly *)

\* The account a bearer token stands for: it was handed out by this server and its
\* exp has not passed; 0 for any other header
Identidade(tok) == IF tok \in tokens /\ tok.exp >= now THEN tok.sub ELSE 0

RECURSIVE TotalDosItens(_)
TotalDosItens(ids) ==
    IF ids = {} THEN 0
    ELSE LET i == CHOOSE x \in ids : TRUE
         IN  itens[i].quantidade * itens[i].preco_unitario + TotalDosItens(ids \ {i})

ItensDe(p) == {i \in DOMAIN itens : itens[i].pedido = p}

EmailCadastrado(email) == \E i \in 1..Len(usuarios) : usuarios[i].email = email

SenhaConfere(email, senha) ==
    \E i \in 1..Len(usuarios) : usuarios[i].email = email /\ usuarios[i].senha = bcrypt_hash(senha)

\* A token handed out that outlives any access token handed out so far: the 7-day
\* token of a login
TokenDeSeteDias(tok) == tok \in tokens /\ tok.exp > now + ACCESS_TOKEN_EXPIRE_MINUTES

\* The instants at which the account logged in: a login hands out the pair of tokens
LoginsDe(u) ==
    { t.exp - REFRESH_TOKEN_EXPIRE_MINUTES :
        t \in { x \in tokens : /\ x.sub = u
                               /\ x.exp >= REFRESH_TOKEN_EXPIRE_MINUTES
                               /\ Jwt(u, x.exp - REFRESH_TOKEN_EXPIRE_MINUTES
                                           + ACCESS_TOKEN_EXPIRE_MINUTES) \in tokens } }

\* More than 7 days have passed since every login of the account
SeteDiasDesdeLogin(u) ==
    /\ LoginsDe(u) # {}
    /\ \A T \in LoginsDe(u) : now > T + REFRESH_TOKEN_EXPIRE_MINUTES

RotasDePedido ==
    {"listar_todos_pedidos", "criar_pedido", "listar_meus_pedidos", "visualizar_pedido",
     "cancelar_pedido", "finalizar_pedido", "adicionar_item_pedido", "remover_item_pedido"}

RotasProtegidas == RotasDePedido \cup {"criar_admin", "use_refresh_token"}

----------------------------------------------------------------------------
\* C1: after every AddItem and RemoveItem, the stored price of every order is the sum
\* of quantity * unit price over the items the order then has, and 0 when it has none.
C1_PrecoIgualSoma ==
    \A p \in 1..Len(pedidos) :
        /\ pedidos[p].preco = TotalDosItens(ItensDe(p))
        /\ ItensDe(p) = {} => pedidos[p].preco = 0

\* An item was removed from an order that keeps another item
C1_Witness ==
    /\ resp.op = "remover_item_pedido"
    /\ resp.code = HTTP_200_OK
    /\ \E p \in resp.lista : ItensDe(p) # {} /\ pedidos[p].preco > 0

\* C2: for an existing order and an authenticated caller who is its owner or an admin,
\* Cancel answers 200 and sets CANCELADO exactly when the status was PENDENTE or
\* EM_PREPARO; from any other status it answers 400 and the status stays.
C2_CancelarSse ==
    [][ (resp'.op = "cancelar_pedido" /\ Identidade(resp'.tok) # 0) =>
          /\ resp'.code # HTTP_401_UNAUTHORIZED
          /\ LET u == Identidade(resp'.tok)
                 p == resp'.alvo
             IN  (p \in 1..Len(pedidos) /\ (usuarios[u].admin \/ pedidos[p].usuario = u)) =>
                    IF pedidos[p].status \in {"PENDENTE", "EM_PREPARO"}
                    THEN resp'.code = HTTP_200_OK /\ pedidos'[p].status = "CANCELADO"
                    ELSE /\ resp'.code = HTTP_400_BAD_REQUEST
                         /\ pedidos'[p].status = pedidos[p].status ]_vars

\* An order was cancelled
C2_Witness ==
    /\ resp.op = "cancelar_pedido"
    /\ resp.code = HTTP_200_OK
    /\ pedidos[resp.alvo].status = "CANCELADO"

\* C3: for an existing order and an authenticated caller who is its owner or an admin,
\* Finalize answers 200 and sets FINALIZADO exactly when the status was EM_PREPARO;
\* from PENDENTE, CANCELADO or FINALIZADO it answers 400 and the status stays.
C3_FinalizarSse ==
    [][ (resp'.op = "finalizar_pedido" /\ Identidade(resp'.tok) # 0) =>
          /\ resp'.code # HTTP_401_UNAUTHORIZED
          /\ LET u == Identidade(resp'.tok)
                 p == resp'.alvo
             IN  (p \in 1..Len(pedidos) /\ (usuarios[u].admin \/ pedidos[p].usuario = u)) =>
                    IF pedidos[p].status = "EM_PREPARO"
                    THEN resp'.code = HTTP_200_OK /\ pedidos'[p].status = "FINALIZADO"
                    ELSE /\ resp'.code = HTTP_400_BAD_REQUEST
                         /\ pedidos'[p].status = pedidos[p].status ]_vars

\* An order in preparation was finalized
C3_Witness ==
    /\ resp.op = "finalizar_pedido"
    /\ resp.code = HTTP_200_OK
    /\ pedidos[resp.alvo].status = "FINALIZADO"

\* C4: on an existing order, GetOne, Cancel, Finalize and AddItem by an authenticated
\* caller who is neither admin nor the owner answer 403 and leave every order and
\* every item as they were; for an admin caller they never answer 403.
C4_SoDonoOuAdmin ==
    [][ (/\ resp'.op \in {"visualizar_pedido", "cancelar_pedido",
                          "finalizar_pedido", "adicionar_item_pedido"}
         /\ Identidade(resp'.tok) # 0) =>
          /\ resp'.code # HTTP_401_UNAUTHORIZED
          /\ LET u == Identidade(resp'.tok)
                 p == resp'.alvo
             IN  p \in 1..Len(pedidos) =>
                   /\ (~ usuarios[u].admin /\ pedidos[p].usuario # u) =>
                         /\ resp'.code = HTTP_403_FORBIDDEN
                         /\ pedidos' = pedidos
                         /\ itens' = itens
                   /\ usuarios[u].admin => resp'.code # HTTP_403_FORBIDDEN ]_vars

\* AddItem was refused to a caller who does not own the order, which has items
C4_Witness ==
    /\ resp.op = "adicionar_item_pedido"
    /\ resp.code = HTTP_403_FORBIDDEN
    /\ ItensDe(resp.alvo) # {}
    /\ ~ usuarios[Identidade(resp.tok)].admin

\* C5: ListAll by an authenticated non-admin answers 403 and by an admin returns every
\* order; ListMine by any authenticated caller answers 200 with exactly the orders
\* whose owner is the caller.
C5_Listagens ==
    LET u == Identidade(resp.tok)
    IN  /\ (resp.op = "listar_todos_pedidos" /\ u # 0) =>
              IF usuarios[u].admin
              THEN resp.code = HTTP_200_OK /\ resp.lista = 1..Len(pedidos)
              ELSE resp.code = HTTP_403_FORBIDDEN /\ resp.lista = {}
        /\ (resp.op = "listar_meus_pedidos" /\ u # 0) =>
              /\ resp.code = HTTP_200_OK
              /\ resp.lista = {p \in 1..Len(pedidos) : pedidos[p].usuario = u}

\* ListMine returned some orders while another account has orders too
C5_Witness ==
    /\ resp.op = "listar_meus_pedidos"
    /\ resp.code = HTTP_200_OK
    /\ resp.lista # {}
    /\ resp.lista # 1..Len(pedidos)

\* C6 as amended: with an email some account already has, Register, and RegisterAdmin
\* called by an authenticated admin, answer 400; RegisterAdmin called by anyone else
\* answers 401 or 403; in every case no account is created and none is changed.
C6_EmailDuplicado ==
    [][ (resp'.op \in {"criar_conta", "criar_admin"} /\ EmailCadastrado(resp'.body.email)) =>
          /\ usuarios' = usuarios
          /\ resp'.op = "criar_conta" => resp'.code = HTTP_400_BAD_REQUEST
          /\ resp'.op = "criar_admin" =>
                LET u == Identidade(resp'.tok)
                IN  resp'.code = IF u = 0 THEN HTTP_401_UNAUTHORIZED
                                 ELSE IF usuarios[u].admin THEN HTTP_400_BAD_REQUEST
                                 ELSE HTTP_403_FORBIDDEN ]_vars

\* An admin asked for an admin account with Ana's email and got 400
C6_Witness ==
    /\ resp.op = "criar_admin"
    /\ resp.code = HTTP_400_BAD_REQUEST
    /\ resp.body.email = usuarios[2].email
    /\ resp.body.nome # usuarios[2].nome

\* C6 as written: Register and RegisterAdmin with an email already taken always
\* answer 400 and leave the accounts as they were.
C6_Original ==
    [][ (resp'.op \in {"criar_conta", "criar_admin"} /\ EmailCadastrado(resp'.body.email)) =>
          /\ resp'.code = HTTP_400_BAD_REQUEST
          /\ usuarios' = usuarios ]_vars

\* C7: a token past its exp is answered 401 on every protected route, and a token
\* handed out by the server whose exp has not passed, in particular the 7-day token
\* of a login, gets from RefreshAccessToken a new 30-minute access token for the
\* same account id.
C7_ExpiraERenova ==
    /\ (resp.op \in RotasProtegidas /\ resp.tok \in tokens /\ resp.tok.exp < now) =>
          resp.code = HTTP_401_UNAUTHORIZED
    /\ (resp.op = "use_refresh_token" /\ Identidade(resp.tok) # 0) =>
          /\ resp.code = HTTP_200_OK
          /\ resp.access = Jwt(resp.tok.sub, now + ACCESS_TOKEN_EXPIRE_MINUTES)
          /\ resp.access \in tokens

\* The access token of a login has expired and its refresh token was just renewed
C7_Witness ==
    /\ resp.op = "use_refresh_token"
    /\ resp.code = HTTP_200_OK
    /\ resp.tok.exp > now + ACCESS_TOKEN_EXPIRE_MINUTES
    /\ resp.access.sub = resp.tok.sub
    /\ \E a \in tokens : a.sub = resp.tok.sub /\ a.exp < now

\* C8: every order route called with a bearer token that is absent, malformed,
\* wrongly signed or expired answers 401 and leaves accounts, orders and items as
\* they were.
C8_SemTokenValido ==
    [][ (resp'.op \in RotasDePedido /\ Identidade(resp'.tok) = 0) =>
          /\ resp'.code = HTTP_401_UNAUTHORIZED
          /\ UNCHANGED <<usuarios, pedidos, itens>> ]_vars

\* RemoveItem with the administrator's expired token was refused while items exist
C8_Witness ==
    /\ resp.op = "remover_item_pedido"
    /\ resp.code = HTTP_401_UNAUTHORIZED
    /\ resp.tok \in tokens
    /\ usuarios[resp.tok.sub].admin
    /\ DOMAIN itens # {}

\* C9: RegisterAdmin by an authenticated caller who is not admin answers 403 and
\* creates no account whatever the body; an account with the admin flag appears only
\* by RegisterAdmin called by an admin, and no account's admin flag ever changes.
C9_SoAdminCriaAdmin ==
    [][ /\ (resp'.op = "criar_admin" /\ Identidade(resp'.tok) # 0
              /\ ~ usuarios[Identidade(resp'.tok)].admin) =>
              resp'.code = HTTP_403_FORBIDDEN /\ usuarios' = usuarios
        /\ \A i \in 1..Len(usuarios') :
              IF i \in 1..Len(usuarios)
              THEN usuarios'[i].admin = usuarios[i].admin
              ELSE usuarios'[i].admin =>
                      /\ resp'.op = "criar_admin"
                      /\ Identidade(resp'.tok) # 0
                      /\ usuarios[Identidade(resp'.tok)].admin ]_vars

\* A caller who is not admin asked for an admin account with a taken email: 403
C9_Witness ==
    /\ resp.op = "criar_admin"
    /\ resp.code = HTTP_403_FORBIDDEN
    /\ EmailCadastrado(resp.body.email)
    /\ Identidade(resp.tok) # 0

\* C10: Register, when the email is free, adds one account with the admin flag false
\* and the active flag true whatever the body's ativo, and it never changes an
\* account that exists.
C10_ContaComumAtiva ==
    [][ resp'.op = "criar_conta" =>
          /\ \A i \in 1..Len(usuarios) : i \in 1..Len(usuarios') /\ usuarios'[i] = usuarios[i]
          /\ IF EmailCadastrado(resp'.body.email)
             THEN usuarios' = usuarios
             ELSE /\ resp'.code = HTTP_201_CREATED
                  /\ Len(usuarios') = Len(usuarios) + 1
                  /\ usuarios'[Len(usuarios')].email = resp'.body.email
                  /\ usuarios'[Len(usuarios')].nome = resp'.body.nome
                  /\ usuarios'[Len(usuarios')].admin = FALSE
                  /\ usuarios'[Len(usuarios')].ativo = TRUE ]_vars

\* An account was registered with ativo false in the body and is stored active
C10_Witness ==
    /\ resp.op = "criar_conta"
    /\ resp.code = HTTP_201_CREATED
    /\ resp.body.ativo = FALSE
    /\ usuarios[Len(usuarios)].email = resp.body.email
    /\ usuarios[Len(usuarios)].ativo
    /\ ~ usuarios[Len(usuarios)].admin

\* C11: for an authenticated caller, admin or not, GetOne, Cancel, Finalize and AddItem
\* on an order id that no order has, and RemoveItem on an item id that no item has,
\* answer 404, never 403, and change nothing.
C11_ExistenciaPrimeiro ==
    [][ Identidade(resp'.tok) # 0 =>
          /\ (/\ resp'.op \in {"visualizar_pedido", "cancelar_pedido",
                               "finalizar_pedido", "adicionar_item_pedido"}
              /\ resp'.alvo \notin 1..Len(pedidos)) =>
                 /\ resp'.code = HTTP_404_NOT_FOUND
                 /\ UNCHANGED <<usuarios, pedidos, itens>>
          /\ (resp'.op = "remover_item_pedido" /\ resp'.alvo \notin DOMAIN itens) =>
                 /\ resp'.code = HTTP_404_NOT_FOUND
                 /\ UNCHANGED <<usuarios, pedidos, itens>> ]_vars

\* A caller who is not admin asked to remove an item that does not exist, while the
\* other account's order has an item
C11_Witness ==
    /\ resp.op = "remover_item_pedido"
    /\ resp.code = HTTP_404_NOT_FOUND
    /\ resp.alvo \notin DOMAIN itens
    /\ Identidade(resp.tok) # 0
    /\ ~ usuarios[Identidade(resp.tok)].admin
    /\ \E i \in DOMAIN itens : pedidos[itens[i].pedido].usuario # Identidade(resp.tok)

\* C12: RemoveItem on an existing item by an authenticated caller who is neither admin
\* nor the owner of the item's order answers 403, and the item stays with the order's
\* price as it was; by the owner of that order or an admin it answers 200, the item
\* is deleted, the other items stay, and the order returned is the item's order.
C12_RemoverPeloDonoDoPedido ==
    [][ (/\ resp'.op = "remover_item_pedido"
         /\ Identidade(resp'.tok) # 0
         /\ resp'.alvo \in DOMAIN itens) =>
          LET u == Identidade(resp'.tok)
              i == resp'.alvo
              p == itens[i].pedido
          IN  IF ~ usuarios[u].admin /\ pedidos[p].usuario # u
              THEN /\ resp'.code = HTTP_403_FORBIDDEN
                   /\ itens' = itens
                   /\ pedidos' = pedidos
              ELSE /\ resp'.code = HTTP_200_OK
                   /\ DOMAIN itens' = DOMAIN itens \ {i}
                   /\ \A j \in DOMAIN itens' : itens'[j] = itens[j]
                   /\ resp'.lista = {p} ]_vars

\* Ana was refused the removal of an item of the administrator's order
C12_Witness ==
    /\ resp.op = "remover_item_pedido"
    /\ resp.code = HTTP_403_FORBIDDEN
    /\ resp.alvo \in DOMAIN itens
    /\ pedidos[itens[resp.alvo].pedido].usuario # Identidade(resp.tok)
    /\ pedidos[itens[resp.alvo].pedido].preco > 0

\* C15: login and login-form answer the same 401 with the same message and no token
\* when no account has the email and when the account's password does not verify;
\* they answer 200 only when an account has the email and the password verifies; a
\* failed attempt leaves accounts, orders, items and tokens as they were.
C15_FalhaDeFormaConstante ==
    [][ resp'.op \in {"login", "login_form"} =>
          IF SenhaConfere(resp'.body.email, resp'.body.senha)
          THEN /\ resp'.code = HTTP_200_OK
               /\ resp'.access \in tokens'
               /\ resp'.access.sub \in 1..Len(usuarios)
               /\ usuarios[resp'.access.sub].email = resp'.body.email
          ELSE /\ resp'.code = HTTP_401_UNAUTHORIZED
               /\ resp'.detail = "Usuario ou senha invalidos"
               /\ resp'.access = NoToken
               /\ resp'.refresh = NoToken
               /\ resp'.lista = {}
               /\ UNCHANGED <<usuarios, pedidos, itens, tokens>> ]_vars

\* A login with the email of an account and a wrong password failed after tokens had
\* been handed out
C15_Witness ==
    /\ resp.op = "login"
    /\ resp.code = HTTP_401_UNAUTHORIZED
    /\ EmailCadastrado(resp.body.email)
    /\ ~ SenhaConfere(resp.body.email, resp.body.senha)
    /\ tokens # {}

\* C13 as amended: the 7-day token of a login is accepted by RefreshAccessToken, and,
\* as a token carries no kind, presented as the bearer token on an order route or on
\* RegisterAdmin it authenticates the caller as the token's account until its exp
\* passes: the answer is never 401, and CreateOrder makes that account the owner.
C13_RefreshAutentica ==
    TokenDeSeteDias(resp.tok) =>
        /\ resp.op \in RotasProtegidas => resp.code # HTTP_401_UNAUTHORIZED
        /\ resp.op = "use_refresh_token" =>
              /\ resp.code = HTTP_200_OK
              /\ resp.access = Jwt(resp.tok.sub, now + ACCESS_TOKEN_EXPIRE_MINUTES)
        /\ resp.op = "criar_pedido" =>
              /\ resp.code = HTTP_201_CREATED
              /\ \A p \in resp.lista : pedidos[p].usuario = resp.tok.sub
        /\ resp.op = "criar_admin" =>
              resp.code = IF usuarios[resp.tok.sub].admin
                          THEN HTTP_400_BAD_REQUEST ELSE HTTP_403_FORBIDDEN

\* Ana created an order with the 7-day token of her login as the bearer token
C13_Witness ==
    /\ resp.op = "criar_pedido"
    /\ resp.code = HTTP_201_CREATED
    /\ TokenDeSeteDias(resp.tok)
    /\ \E p \in resp.lista : pedidos[p].usuario = resp.tok.sub /\ pedidos[p].status = "PENDENTE"

\* C13 as written: the 7-day token of a login presented as the bearer token on an
\* order route or on RegisterAdmin does not authenticate the caller.
C13_Original ==
    (resp.op \in RotasDePedido \cup {"criar_admin"} /\ TokenDeSeteDias(resp.tok)) =>
        resp.code = HTTP_401_UNAUTHORIZED

\* C14 as written: once more than 7 days have passed since every login of an account,
\* no token of that account is accepted on a protected route.
C14_Original ==
    (/\ resp.op \in RotasProtegidas
     /\ resp.tok \in tokens
     /\ SeteDiasDesdeLogin(resp.tok.sub)) =>
        resp.code = HTTP_401_UNAUTHORIZED

\* C16: CreateOrder by an authenticated caller answers 201 and adds exactly one order,
\* with an id no order had, status PENDENTE, price 0, no item, and the caller's account
\* as owner; every order, item and account that existed is as it was.
C16_CriarPedidoSoInsere ==
    [][ (resp'.op = "criar_pedido" /\ Identidade(resp'.tok) # 0) =>
          LET n == Len(pedidos) + 1
          IN  /\ resp'.code = HTTP_201_CREATED
              /\ resp'.lista = {n}
              /\ Len(pedidos') = n
              /\ pedidos'[n] = [usuario |-> Identidade(resp'.tok),
                                status |-> "PENDENTE", preco |-> 0]
              /\ {i \in DOMAIN itens' : itens'[i].pedido = n} = {}
              /\ \A p \in 1..Len(pedidos) : pedidos'[p] = pedidos[p]
              /\ itens' = itens
              /\ usuarios' = usuarios ]_vars

\* A second order was created while the first has an item and a price
C16_Witness ==
    /\ resp.op = "criar_pedido"
    /\ resp.code = HTTP_201_CREATED
    /\ resp.lista = {2}
    /\ pedidos[2].usuario = Identidade(resp.tok)
    /\ ItensDe(1) # {}
    /\ pedidos[1].preco > 0

C18_Terminais ==
    [][ \A p \in 1..Len(pedidos) :
          pedidos[p].status \in {"CANCELADO", "FINALIZADO"} =>
             /\ p \in 1..Len(pedidos')
             /\ pedidos'[p].status = pedidos[p].status ]_vars

\* Finalize was asked for an order that is cancelled and was refused
C18_Witness ==
    /\ resp.op = "finalizar_pedido"
    /\ resp.code = HTTP_400_BAD_REQUEST
    /\ pedidos[resp.alvo].status = "CANCELADO"
    /\ \E p \in 1..Len(pedidos) : pedidos[p].status = "FINALIZADO" /\ ItensDe(p) # {}

\* C19: from a store in which no order is EM_PREPARO, no operation by any caller,
\* admin included, leaves an order EM_PREPARO.
C19_EmPreparoInalcancavel ==
    [][ (\A p \in 1..Len(pedidos) : pedidos[p].status # "EM_PREPARO") =>
          (\A p \in 1..Len(pedidos') : pedidos'[p].status # "EM_PREPARO") ]_vars

\* The administrator asked to finalize a pending order of a store without any order
\* in preparation, in which an order was cancelled, and was refused
C19_Witness ==
    /\ resp.op = "finalizar_pedido"
    /\ resp.code = HTTP_400_BAD_REQUEST
    /\ usuarios[Identidade(resp.tok)].admin
    /\ \E p \in 1..Len(pedidos) : pedidos[p].status = "CANCELADO"
    /\ \A p \in 1..Len(pedidos) : pedidos[p].status \in {"PENDENTE", "CANCELADO"}
    /\ pedidos[resp.alvo].status = "PENDENTE"

\* C20: for an authenticated caller who is the owner of the order or an admin, AddItem
\* with a valid item and RemoveItem answer 200 whatever the order's status; the price
\* of the order, FINALIZADO and CANCELADO included, moves by quantity * unit price of
\* the item, and the status of every order stays.
C20_ItensSemGuardaDeStatus ==
    [][ Identidade(resp'.tok) # 0 =>
          LET u == Identidade(resp'.tok)
          IN  /\ (/\ resp'.op = "adicionar_item_pedido"
                  /\ resp'.alvo \in 1..Len(pedidos)
                  /\ (usuarios[u].admin \/ pedidos[resp'.alvo].usuario = u)
                  /\ resp'.body.quantidade >= 1
                  /\ resp'.body.preco_unitario >= 0) =>
                    LET p == resp'.alvo
                    IN  /\ resp'.code = HTTP_200_OK
                        /\ pedidos'[p].preco =
                              pedidos[p].preco
                                + resp'.body.quantidade * resp'.body.preco_unitario
                        /\ \A q \in 1..Len(pedidos) : pedidos'[q].status = pedidos[q].status
              /\ (/\ resp'.op = "remover_item_pedido"
                  /\ resp'.alvo \in DOMAIN itens
                  /\ (usuarios[u].admin
                        \/ pedidos[itens[resp'.alvo].pedido].usuario = u)) =>
                    LET i == resp'.alvo
                        p == itens[i].pedido
                    IN  /\ resp'.code = HTTP_200_OK
                        /\ pedidos'[p].preco =
                              pedidos[p].preco - itens[i].quantidade * itens[i].preco_unitario
                        /\ \A q \in 1..Len(pedidos) : pedidos'[q].status = pedidos[q].status ]_vars

\* An item was added to a finalized order, which now has a price
C20_Witness ==
    /\ resp.op = "adicionar_item_pedido"
    /\ resp.code = HTTP_200_OK
    /\ pedidos[resp.alvo].status = "FINALIZADO"
    /\ pedidos[resp.alvo].preco > 0
    /\ \E p \in 1..Len(pedidos) : pedidos[p].status = "CANCELADO" /\ ItensDe(p) # {}

\* C24: an unexpired token that is not the 7-day token of a login, that is an access
\* token of a login, of a login-form or of an earlier refresh, presented to
\* RefreshAccessToken is answered as a refresh token is: 200 with a new 30-minute
\* access token for the same account.
C24_AccessTokenRenova ==
    (/\ resp.op = "use_refresh_token"
     /\ Identidade(resp.tok) # 0
     /\ ~ TokenDeSeteDias(resp.tok)) =>
        /\ resp.code = HTTP_200_OK
        /\ resp.access.tipo = "jwt"
        /\ resp.access.sub = resp.tok.sub
        /\ resp.access.exp = now + ACCESS_TOKEN_EXPIRE_MINUTES
        /\ resp.access \in tokens
        /\ resp.refresh = NoToken

\* An access token minted from another token was presented to RefreshAccessToken later
\* and a newer access token came back
C24_Witness ==
    /\ resp.op = "use_refresh_token"
    /\ resp.code = HTTP_200_OK
    /\ ~ TokenDeSeteDias(resp.tok)
    /\ resp.access # resp.tok
    /\ resp.access.exp > resp.tok.exp
    /\ resp.access.sub = resp.tok.sub

\* C25 as written: every stored item has a non-empty flavor and a non-empty size.
C25_Original ==
    \A i \in DOMAIN itens : itens[i].sabor # "" /\ itens[i].tamanho # ""

\* C26: every order's price is non-negative, and a step changes the price of an
\* order only when it is a successful AddItem or RemoveItem on that order, and then
\* the new price is the total of the order's items: no caller chooses a price.
C26_PrecoSoRecalculado ==
    /\ [](\A p \in 1..Len(pedidos) : pedidos[p].preco >= 0)
    /\ [][\A p \in 1..Len(pedidos) :
            pedidos'[p].preco # pedidos[p].preco =>
               /\ resp'.op \in {"adicionar_item_pedido", "remover_item_pedido"}
               /\ resp'.code = HTTP_200_OK
               /\ resp'.lista = {p}
               /\ pedidos'[p].preco = (TotalDosItens(ItensDe(p)))']_vars

\* An order carries a price that came from its items and the caller who then
\* asked for a negative unit price was refused
C26_Witness ==
    /\ resp.op = "adicionar_item_pedido"
    /\ resp.code = HTTP_422_UNPROCESSABLE
    /\ resp.body.preco_unitario < 0
    /\ pedidos[resp.alvo].preco > 0
    /\ ItensDe(resp.alvo) # {}

\* C27: a successful AddItem on order O or RemoveItem of an item of O leaves every
\* other order's items, price and status, and O's status, as they were; the item
\* added is attached to O; and no step of any operation moves an item that stays
\* in the store to another order.
C27_SoOPedidoAlvo ==
    [][/\ (/\ resp'.op \in {"adicionar_item_pedido", "remover_item_pedido"}
           /\ resp'.code = HTTP_200_OK) =>
             \E o \in 1..Len(pedidos) :
                /\ resp'.lista = {o}
                /\ Len(pedidos') = Len(pedidos)
                /\ pedidos'[o].status = pedidos[o].status
                /\ pedidos'[o].usuario = pedidos[o].usuario
                /\ \A q \in 1..Len(pedidos) \ {o} :
                      /\ pedidos'[q] = pedidos[q]
                      /\ (ItensDe(q))' = ItensDe(q)
                      /\ \A i \in ItensDe(q) : itens'[i] = itens[i]
                /\ resp'.op = "adicionar_item_pedido" =>
                      /\ Cardinality(DOMAIN itens' \ DOMAIN itens) = 1
                      /\ \A i \in DOMAIN itens' \ DOMAIN itens : itens'[i].pedido = o
                      /\ \A i \in DOMAIN itens : itens'[i] = itens[i]
                /\ resp'.op = "remover_item_pedido" =>
                      /\ DOMAIN itens' = DOMAIN itens \ {resp'.alvo}
                      /\ itens[resp'.alvo].pedido = o
                      /\ \A i \in DOMAIN itens' : itens'[i] = itens[i]
       /\ \A i \in DOMAIN itens \cap DOMAIN itens' : itens'[i].pedido = itens[i].pedido]_vars

\* An item was added to the second order while the first order holds an item
C27_Witness ==
    /\ resp.op = "adicionar_item_pedido"
    /\ resp.code = HTTP_200_OK
    /\ resp.alvo = 2
    /\ ItensDe(1) # {}
    /\ ItensDe(2) # {}

\* C28: no step removes an order or changes its id or its owner: every order on
\* file is on file under the same id with the same owner after every step.
C28_PedidoPermanece ==
    [][\A p \in 1..Len(pedidos) :
          /\ p <= Len(pedidos')
          /\ pedidos'[p].usuario = pedidos[p].usuario]_vars

\* The administrator cancelled the customer's order, which is still the customer's
C28_Witness ==
    /\ resp.op = "cancelar_pedido"
    /\ resp.code = HTTP_200_OK
    /\ usuarios[resp.tok.sub].admin
    /\ pedidos[resp.alvo].status = "CANCELADO"
    /\ pedidos[resp.alvo].usuario # resp.tok.sub

\* C29: a successful Cancel or Finalize changes the status of the target order and
\* nothing else in the store; one answered 404, 403 or 400 changes nothing.
C29_SoOStatus ==
    [][resp'.op \in {"cancelar_pedido", "finalizar_pedido"} =>
          /\ usuarios' = usuarios
          /\ itens' = itens
          /\ Len(pedidos') = Len(pedidos)
          /\ resp'.code = HTTP_200_OK =>
                /\ pedidos'[resp'.alvo].status =
                      (IF resp'.op = "cancelar_pedido" THEN "CANCELADO" ELSE "FINALIZADO")
                /\ pedidos' = [pedidos EXCEPT ![resp'.alvo].status = pedidos'[resp'.alvo].status]
          /\ resp'.code \in {HTTP_404_NOT_FOUND, HTTP_403_FORBIDDEN, HTTP_400_BAD_REQUEST} =>
                pedidos' = pedidos]_vars

\* An order holding an item and a price was finalized, next to another order
C29_Witness ==
    /\ resp.op = "finalizar_pedido"
    /\ resp.code = HTTP_200_OK
    /\ pedidos[resp.alvo].preco > 0
    /\ ItensDe(resp.alvo) # {}
    /\ Len(pedidos) = 2

\* C30: in a store that started without an administrator no account is ever an
\* administrator; no step changes the admin flag of an account or removes an
\* account; and neither ListAll nor RegisterAdmin is ever answered with success.
C30_SemAdminParaSempre ==
    /\ [](\A u \in 1..Len(usuarios) : ~ usuarios[u].admin)
    /\ [](~ (resp.op = "listar_todos_pedidos" /\ resp.code = HTTP_200_OK))
    /\ [](~ (resp.op = "criar_admin" /\ resp.code = HTTP_201_CREATED))
    /\ [][\A u \in 1..Len(usuarios) :
             /\ u <= Len(usuarios')
             /\ usuarios'[u].admin = usuarios[u].admin]_vars

\* An account registered in that store logged in and was refused RegisterAdmin
C30_Witness ==
    /\ resp.op = "criar_admin"
    /\ resp.code = HTTP_403_FORBIDDEN
    /\ Identidade(resp.tok) > 1
    /\ Len(pedidos) > 0

\* C21 as written: whatever the interleaving of AddItem and RemoveItem calls on an
\* order, the stored price of the order is the total of its stored items after
\* every commit.
C21_Original ==
    \A p \in 1..Len(pedidos) : pedidos[p].preco = TotalDosItens(ItensDe(p))

\* C22 as written: no two stored accounts have the same email, whatever the
\* interleaving of Register and RegisterAdmin calls.
C22_Original ==
    \A u \in 1..Len(usuarios), v \in 1..Len(usuarios) :
        u # v => usuarios[u].email # usuarios[v].email

\* C23: a persistence failure of an AddItem or RemoveItem at any step before the end
\* of its commit leaves the stored accounts, orders and items exactly as they were,
\* and the stored items and prices change only together, in the step of a commit.
C23_FalhaNaoGrava ==
    [][/\ (/\ resp'.code = HTTP_500_INTERNAL_SERVER_ERROR
           /\ resp'.op \in {"adicionar_item_pedido", "remover_item_pedido"}
           /\ \E s \in 1..MaxSessoes : sessoes[s].pc # "livre" /\ sessoes'[s].pc = "livre") =>
             /\ usuarios' = usuarios /\ pedidos' = pedidos /\ itens' = itens
             /\ escritor' \in {0} \cup {s \in 1..MaxSessoes : sessoes'[s].pc # "livre"}
       /\ (itens' # itens \/ pedidos' # pedidos) =>
             /\ resp'.code = HTTP_200_OK
             /\ \E s \in 1..MaxSessoes :
                   /\ sessoes[s].pc = "calculado" /\ sessoes'[s].pc = "livre"
                   /\ itens' = sessoes[s].linhas
                   /\ pedidos'[sessoes[s].pedido].preco \in {sessoes[s].preco, pedidos[sessoes[s].pedido].preco}]_vars

\* An AddItem failed after its INSERT and its recomputation, before the end of its
\* commit, on an order that already holds an item
C23_Witness ==
    /\ resp.code = HTTP_500_INTERNAL_SERVER_ERROR
    /\ resp.op = "adicionar_item_pedido"
    /\ Cardinality(ItensDe(resp.alvo)) = 1
    /\ pedidos[resp.alvo].preco = TotalDosItens(ItensDe(resp.alvo))
    /\ escritor = 0
    /\ \A s \in 1..MaxSessoes : sessoes[s].pc = "livre"

\* C31: in a store that started without orders every order is PENDENTE or CANCELADO,
\* and no Finalize is answered with success, whoever calls.
C31_NuncaFinalizado ==
    /\ \A p \in 1..Len(pedidos) : pedidos[p].status \in {"PENDENTE", "CANCELADO"}
    /\ ~ (resp.op = "finalizar_pedido" /\ resp.code = HTTP_200_OK)

\* The customer asked to finalize a pending order of theirs that holds an item, in a
\* store that opened without orders, and was refused; the other order was cancelled
C31_Witness ==
    /\ resp.op = "finalizar_pedido"
    /\ resp.code = HTTP_400_BAD_REQUEST
    /\ Identidade(resp.tok) = pedidos[resp.alvo].usuario
    /\ ~ usuarios[Identidade(resp.tok)].admin
    /\ pedidos[resp.alvo].status = "PENDENTE"
    /\ ItensDe(resp.alvo) # {}
    /\ Len(pedidos) = 2
    /\ \E p \in 1..Len(pedidos) : pedidos[p].status = "CANCELADO"

\* C32: when Cancel runs at the same time as an AddItem or a RemoveItem on the same
\* order, the commit of the Cancel sets the status to CANCELADO and leaves the price
\* and the items as committed, the commit of the item request writes the recomputed
\* price and leaves the status as committed, so that the price is the total of the
\* items throughout and a cancelled order stays cancelled.
C32_NenhumaEscritaPerdida ==
    /\ [](\A p \in 1..Len(pedidos) : pedidos[p].preco = TotalDosItens(ItensDe(p)))
    /\ [][/\ \A p \in 1..Len(pedidos) :
                pedidos[p].status = "CANCELADO" => pedidos'[p].status = "CANCELADO"
          /\ (resp'.op = "cancelar_pedido" /\ resp'.code = HTTP_200_OK /\ resp' # resp) =>
                /\ pedidos' = [pedidos EXCEPT ![resp'.alvo].status = "CANCELADO"]
                /\ itens' = itens
          /\ (/\ resp'.op \in {"adicionar_item_pedido", "remover_item_pedido"}
              /\ resp'.code = HTTP_200_OK
              /\ itens' # itens) =>
                \A p \in resp'.lista :
                   /\ pedidos'[p].status = pedidos[p].status
                   /\ pedidos'[p].preco = (TotalDosItens(ItensDe(p)))']_vars

\* An AddItem has committed and changed the price of an order while a Cancel that
\* had loaded the order with its former price is on its way to its commit
C32_Witness ==
    /\ resp.op = "adicionar_item_pedido"
    /\ resp.code = HTTP_200_OK
    /\ \E s \in 1..MaxSessoes :
          /\ sessoes[s].op = "cancelar_pedido"
          /\ sessoes[s].pc = "autorizado"
          /\ sessoes[s].pedido \in resp.lista
          /\ sessoes[s].preco_carregado # pedidos[sessoes[s].pedido].preco
          /\ pedidos[sessoes[s].pedido].status = "PENDENTE"

====
